---- MODULE Spec2Model ----
(***************************************************************************)
(* Flask + MySQL login system: the credential and session core of          *)
(* src/demo/app.py (database settings from the environment, connection     *)
(* retry loop, login by email) and src/demo/app1.py (hardcoded settings,   *)
(* a single connection attempt, login by username).                        *)
(*                                                                         *)
(* One deployment runs one of the two files (variable variant).  Client    *)
(* contexts (browsers) send requests; a request handler runs as one step,  *)
(* except register, whose INSERT and COMMIT both touch the shared store    *)
(* and are two steps, so that registrations of different clients           *)
(* interleave.  The response of the handler that completed last is kept    *)
(* in out, together with the form and the session cookie of its request.   *)
(***************************************************************************)
EXTENDS Integers, FiniteSets, Sequences, TLC

VARIABLES
    variant,    \* which file is deployed: "app" or "app1"
    users,      \* committed rows of table users
    nextId,     \* AUTO_INCREMENT counter of users.id
    pending,    \* per client: the row its open transaction has inserted, not yet committed
    pc,         \* per client: where its register request stands: "wait" (its INSERT
                \* waits for a lock), "commit" (inserted, not committed), else "idle"
    reg,        \* per client: the form and the hash of its register request in progress
    session,    \* per client: the Flask session (user_id, username, email keys)
    out,        \* the response of the request that completed last
    registered, \* the forms of the registrations that succeeded, in order
    acq         \* a call of get_db_connection on its own (specification SpecConn)

vars == <<variant, users, nextId, pending, pc, reg, session, out, registered, acq>>

----------------------------------------------------------------------------
(* Bounds of the model                                                     *)

\* ids the AUTO_INCREMENT counter may hand out before the model stops inserting
MaxId == 2
\* number of distinct salts generate_password_hash may draw
NumSalts == 1
\* get_db_connection is called with max_retries in 0..MaxRetryArg; connection
\* outcome patterns have this length
MaxRetryArg == 5

Variants == {"app", "app1"}
Clients == {"c1", "c2"}
Usernames == {"alice", "bob"}
Emails == {"alice@x.com", "bob@x.com"}
\* passwords a registration form carries, and those a login form carries
RegPasswords == {"", "pw1"}
LoginPasswords == {"", "pw1", "pw2"}
\* what a login form carries in its identifier field
LoginIdents == Usernames \cup Emails
Salts == 1..NumSalts

----------------------------------------------------------------------------
(* Values                                                                  *)

\* a key that is absent from a dict, a form or a row
NoStr == "<absent>"
NoHash == [salt |-> 0, hashval |-> 0]
NoRow == [id |-> 0, username |-> NoStr, email |-> NoStr, password |-> NoHash,
          created_at |-> 0]
NoSession == [user_id |-> 0, username |-> NoStr, email |-> NoStr]
NoForm == [username |-> NoStr, email |-> NoStr, password |-> NoStr]

----------------------------------------------------------------------------
(* 4.1 Credential hasher (werkzeug.security, as the handlers call it)      *)

\* a number for each password of the model
PwCode(p) == CASE p = "" -> 0 [] p = "pw1" -> 1 [] p = "pw2" -> 2 [] OTHER -> 3
PwBase == Cardinality(LoginPasswords) + 1

\* the salted key derivation: collision free on the model's passwords and salts
pbkdf2_sha256(salt, p) == salt * PwBase + PwCode(p)

\* a check that accepts every password for a stored hash
check_any_password(pwhash, p) == pwhash # NoHash

\* a hash that stores the unsalted derivation: check_password_hash, which
\* re-derives with the salt, no longer accepts the password that was hashed
generate_unsalted_hash(p, salt) == [salt |-> salt, hashval |-> PwCode(p)]

\* generate_password_hash(password, method='pbkdf2:sha256') with the salt it drew:
\* the stored value carries the salt and the derivation
generate_password_hash(p, salt) == [salt |-> salt, hashval |-> pbkdf2_sha256(salt, p)]

\* check_password_hash(pwhash, password): re-derive with the stored salt, compare
check_password_hash(pwhash, p) ==
    /\ pwhash # NoHash
    /\ pbkdf2_sha256(pwhash.salt, p) = pwhash.hashval

----------------------------------------------------------------------------
(* 4.2 Connection manager                                                  *)

\* what one mysql.connector.connect call does: returns a connected handle,
\* raises mysql.connector.Error, or returns a handle that is not connected
ConnOutcomes == {"ok", "error", "notconn"}
AttemptPatterns == [1..MaxRetryArg -> ConnOutcomes]

DefaultMaxRetries == 5

AcqResult(conn, raised, attempts, sleeps) ==
    [conn |-> conn, raised |-> raised, attempts |-> attempts, sleeps |-> sleeps]
NoResult == AcqResult("none", FALSE, 0, 0)

\* app.py: the for loop of get_db_connection from iteration attempt on
RECURSIVE retry_loop(_, _, _, _)
retry_loop(pat, attempt, max_retries, sleeps) ==
    IF attempt >= max_retries
    THEN AcqResult("none", FALSE, attempt, sleeps)                 \* line 74
    ELSE CASE pat[attempt + 1] = "ok" ->
                 AcqResult("open", FALSE, attempt + 1, sleeps)     \* line 59
           [] pat[attempt + 1] = "notconn" ->
                 \* is_connected() is False: falls out of the try, next iteration
                 retry_loop(pat, attempt + 1, max_retries, sleeps)
           [] OTHER ->
                 IF attempt < max_retries - 1
                 THEN retry_loop(pat, attempt + 1, max_retries, sleeps + 1)
                 ELSE AcqResult("none", FALSE, attempt + 1, sleeps) \* line 72

\* a retry loop that also sleeps after its last attempt raised
get_db_connection_sleeping_last(pat, max_retries) ==
    LET r == retry_loop(pat, 0, max_retries, 0)
    IN  IF r.conn = "none" /\ r.attempts > 0 /\ pat[r.attempts] = "error"
        THEN [r EXCEPT !.sleeps = @ + 1]
        ELSE r

app_get_db_connection(pat, max_retries) == retry_loop(pat, 0, max_retries, 0)

\* app1.py: one connect call, its exception is not caught, its handle is not tested
app1_get_db_connection(pat) ==
    CASE pat[1] = "ok" -> AcqResult("open", FALSE, 1, 0)
      [] pat[1] = "notconn" -> AcqResult("notconn", FALSE, 1, 0)
      [] OTHER -> AcqResult("none", TRUE, 1, 0)

get_db_connection(v, pat, max_retries) ==
    IF v = "app" THEN app_get_db_connection(pat, max_retries)
    ELSE app1_get_db_connection(pat)

\* what a handler's call get_db_connection() can give it: "open", "none"
\* (app.py returned None), "raised" (app1.py let the exception through) or
\* "notconn" (app1.py returned a handle that is not connected)
Acquired(r) == IF r.raised THEN "raised" ELSE r.conn
AppAcquire ==
    {Acquired(app_get_db_connection(pat, DefaultMaxRetries)) : pat \in AttemptPatterns}
App1Acquire == {Acquired(app1_get_db_connection(pat)) : pat \in AttemptPatterns}
AcquireResults == IF variant = "app" THEN AppAcquire ELSE App1Acquire

\* a store call (cursor(), execute(), commit()) succeeds, raises Error with the
\* connection still up (_error), or raises Error because the connection is lost
\* (_lost): where the store calls of a handler fail, up to execute()
SelectFaults == {"none", "cursor_error", "cursor_lost", "exec_error", "exec_lost"}
\* how connection.commit() goes
CommitFaults == {"none", "commit_error", "commit_lost"}

----------------------------------------------------------------------------
(* 4.3 User store: table users of the MySQL database                       *)

\* a table whose only UNIQUE column is username
UniqueUsername(row) == \E r \in users : r.username = row.username

\* a store in which an INSERT never waits for another transaction
NeverLocked(c, row) == FALSE

\* UNIQUE on username and on email (CREATE TABLE users): the row collides
\* with a committed row
UniqueViolation(row) ==
    \E r \in users : r.username = row.username \/ r.email = row.email

\* the row collides with a row another client's open transaction inserted:
\* the INSERT waits for that transaction to commit or roll back
LockedByOther(c, row) ==
    \E d \in Clients \ {c} :
        /\ pending[d] # NoRow
        /\ (pending[d].username = row.username \/ pending[d].email = row.email)

\* INSERT INTO users (username, email, password): id and created_at by default
NewRow(username, email, pwhash) ==
    [id |-> nextId, username |-> username, email |-> email, password |-> pwhash,
     created_at |-> nextId]

\* a commit that overwrites the table with the inserted row
commit_overwriting(rows, row) == {row}

\* connection.commit() of a transaction that inserted row: the table gains it
commit_insert(rows, row) == rows \cup {row}

\* cursor.fetchone() on a result set: a row, or None
fetchone(rows) == IF rows = {} THEN NoRow ELSE CHOOSE r \in rows : TRUE

\* SELECT * FROM users WHERE email = %s  (app.py login)
select_by_email(email) == fetchone({r \in users : r.email = email})
\* SELECT * FROM users WHERE username = %s  (app1.py login)
select_by_username(username) == fetchone({r \in users : r.username = username})
\* SELECT * FROM users WHERE id = %s: the row with its password column
select_star(id) == fetchone({x \in users : x.id = id})

\* SELECT id, username, email, created_at FROM users WHERE id = %s  (dashboard)
select_profile(id) ==
    LET r == fetchone({x \in users : x.id = id})
    IN  [r EXCEPT !.password = NoHash]

----------------------------------------------------------------------------
(* Responses                                                               *)

Resp(status, kind, target, flash, category, data) ==
    [status |-> status, kind |-> kind, target |-> target, flash |-> flash,
     category |-> category, data |-> data]

\* render_template(view, ...) after an optional flash(message, category)
Render(view, flash, category, data) == Resp(200, "render", view, flash, category, data)
\* redirect(url_for(endpoint)) after an optional flash
Redirect(endpoint, flash, category) == Resp(302, "redirect", endpoint, flash, category, NoRow)
\* an exception leaves the handler: Flask answers 500
Crash(exception, flash, category) == Resp(500, "error", exception, flash, category, NoRow)

FlashDbFailed == "Database connection failed. Please try again later."
FlashDbFailedShort == "Database connection failed."
FlashError == "An error occurred. Please try again."
FlashDuplicate == "Username or email already exists!"
FlashRegistered == "Registration successful! Please login."
FlashRequired == "Email and password are required!"
FlashLoggedIn == "Login successful!"
FlashInvalidEmail == "Invalid email or password!"
FlashInvalidUsername == "Invalid username or password!"
FlashLoggedOut == "You have been logged out."
FlashPleaseLogin == "Please login to access dashboard."

\* how the store behaved for a request: what get_db_connection gave, where a
\* store call failed
Run(a, f) == [acq |-> a, fault |-> f]
NoRun == Run("unused", "none")

\* the response of client c's request, with what the request carried (form,
\* session cookie), how the store behaved for it (run), whether its INSERT was
\* waiting for another transaction when it ended, the rows of users when its
\* handler returned (before its own commit, if any), and the state its
\* connection and cursor are left in
Emit(c, op, form, run, resp, conn, cursor) ==
    [client |-> c, op |-> op, form |-> form, cookie |-> session[c], run |-> run,
     waited |-> (pc[c] = "wait"), before |-> users, resp |-> resp, conn |-> conn,
     cursor |-> cursor]
NoOut == [client |-> NoStr, op |-> "none", form |-> NoForm, cookie |-> NoSession,
          run |-> NoRun, waited |-> FALSE, before |-> {},
          resp |-> Resp(0, "none", NoStr, NoStr, NoStr, NoRow),
          conn |-> "none", cursor |-> "none"]

AcqIdle == [phase |-> "idle", pat |-> [i \in 1..MaxRetryArg |-> "ok"],
            max_retries |-> 0, result |-> NoResult]

----------------------------------------------------------------------------
(* Requests that use no store                                              *)

\* what index() returns to a request with session s
index_response(s) ==
    IF s.user_id # 0
    THEN IF s.username # NoStr
         THEN Render("home.html", NoStr, NoStr, [NoRow EXCEPT !.username = s.username])
         ELSE Crash("KeyError", NoStr, NoStr)
    ELSE Redirect("login", NoStr, NoStr)

\* index(): both files
index(c) ==
    /\ pc[c] = "idle"
    /\ out' = Emit(c, "index", NoForm, NoRun, index_response(session[c]), "none", "none")
    /\ UNCHANGED <<variant, users, nextId, pending, pc, reg, session, registered, acq>>

\* a logout that pops username only
pop_username_only(s) == [s EXCEPT !.username = NoStr]

\* session.pop(...) of logout: app.py pops user_id, username and email
app_logout_session(s) == [s EXCEPT !.user_id = 0, !.username = NoStr, !.email = NoStr]
\* a logout that pops user_id and leaves the cached username
pop_user_id_only(s) == [s EXCEPT !.user_id = 0]

\* app1.py pops user_id and username
app1_logout_session(s) == [s EXCEPT !.user_id = 0, !.username = NoStr]

logout_session(s) ==
    IF variant = "app" THEN app_logout_session(s) ELSE app1_logout_session(s)

\* a logout that clears the session of every client
logout_everyone(c) ==
    /\ pc[c] = "idle"
    /\ session' = [d \in Clients |-> logout_session(session[d])]
    /\ out' = Emit(c, "logout", NoForm, NoRun, Redirect("login", FlashLoggedOut, "info"),
                   "none", "none")
    /\ UNCHANGED <<variant, users, nextId, pending, pc, reg, registered, acq>>

\* logout(): both files
logout(c) ==
    /\ pc[c] = "idle"
    /\ session' = [session EXCEPT ![c] = logout_session(session[c])]
    /\ out' = Emit(c, "logout", NoForm, NoRun, Redirect("login", FlashLoggedOut, "info"),
                   "none", "none")
    /\ UNCHANGED <<variant, users, nextId, pending, pc, reg, registered, acq>>

\* the fixed payload of health
HealthyPayload ==
    Resp(200, "json", "status=healthy,service=flask-app", NoStr, NoStr, NoRow)

\* a health check that asks for a store connection and reports its absence
health_probing_store(c) ==
    /\ pc[c] = "idle"
    /\ \E a \in AcquireResults :
          out' = Emit(c, "health", NoForm, Run(a, "none"),
                      IF a = "open" THEN HealthyPayload
                      ELSE Resp(503, "json", "status=unhealthy,service=flask-app",
                                NoStr, NoStr, NoRow),
                      IF a = "open" THEN "closed" ELSE "none", "none")
    /\ UNCHANGED <<variant, users, nextId, pending, pc, reg, session, registered, acq>>

\* health(): a route of app.py only; app1.py has no such route (404)
health(c) ==
    /\ pc[c] = "idle"
    /\ out' = Emit(c, "health", NoForm, NoRun,
                   IF variant = "app" THEN HealthyPayload
                   ELSE Resp(404, "error", "NotFound", NoStr, NoStr, NoRow),
                   "none", "none")
    /\ UNCHANGED <<variant, users, nextId, pending, pc, reg, session, registered, acq>>

\* a login form that sends its visitor to index
form_view_bouncing(op) ==
    IF op = "register_get" THEN Render("register.html", NoStr, NoStr, NoRow)
    ELSE Redirect("index", NoStr, NoStr)

\* what register() and login() return to a GET: the form, whatever the session
form_view(op) ==
    Render(IF op = "register_get" THEN "register.html" ELSE "login.html",
           NoStr, NoStr, NoRow)

\* GET /register and GET /login: the form is rendered
get_form(c, op) ==
    /\ pc[c] = "idle"
    /\ out' = Emit(c, op, NoForm, NoRun, form_view(op), "none", "none")
    /\ UNCHANGED <<variant, users, nextId, pending, pc, reg, session, registered, acq>>

\* url_for(endpoint) requested with a GET by a client whose session is s: the
\* handlers name the endpoints login and index in their redirects
route_get(endpoint, s) ==
    IF endpoint = "index" THEN index_response(s) ELSE form_view("login_get")

\* the client follows a redirect: the response to the GET of its target, or
\* resp itself when resp is no redirect
follow_redirect(resp, s) ==
    IF resp.kind = "redirect" THEN route_get(resp.target, s) ELSE resp

----------------------------------------------------------------------------
(* register                                                                *)

RegForm(u, e, p) == [username |-> u, email |-> e, password |-> p]
NoReg == [form |-> NoForm, pwhash |-> NoHash]

\* app.py register when a store call fails: a is what get_db_connection gave,
\* f the call that failed
app_register_fault(c, form, a, f) ==
    LET E(resp, conn, cursor) == Emit(c, "register", form, Run(a, f), resp, conn, cursor)
    IN  CASE a = "none" ->
               E(Render("register.html", FlashDbFailed, "danger", NoRow), "none", "none")
          [] f = "cursor_error" ->
               \* except Error flashes; finally: is_connected(), then cursor.close()
               \* on the unassigned local cursor raises UnboundLocalError
               E(Crash("UnboundLocalError", FlashError, "danger"), "open", "unbound")
          [] f = "cursor_lost" ->
               \* is_connected() is False: nothing is closed
               E(Render("register.html", FlashError, "danger", NoRow), "lost", "unbound")
          [] f \in {"exec_error", "commit_error"} ->
               E(Render("register.html", FlashError, "danger", NoRow), "closed", "closed")
          [] OTHER ->
               E(Render("register.html", FlashError, "danger", NoRow), "lost", "open")

\* app1.py register when a store call fails: get_db_connection and cursor() are
\* outside the try; inside it only IntegrityError is caught, finally closes
app1_register_fault(c, form, a, f) ==
    LET E(resp, conn, cursor) == Emit(c, "register", form, Run(a, f), resp, conn, cursor)
    IN  CASE a = "raised" -> E(Crash("Error", NoStr, NoStr), "none", "none")
          [] a = "notconn" -> E(Crash("Error", NoStr, NoStr), "lost", "unbound")
          [] f = "cursor_error" -> E(Crash("Error", NoStr, NoStr), "open", "unbound")
          [] f = "cursor_lost" -> E(Crash("Error", NoStr, NoStr), "lost", "unbound")
          [] OTHER -> E(Crash("Error", NoStr, NoStr), "closed", "closed")

register_fault(c, form, a, f) ==
    IF variant = "app" THEN app_register_fault(c, form, a, f)
    ELSE app1_register_fault(c, form, a, f)

\* except IntegrityError: flash, finally closes, the form is rendered again
register_duplicate(c, form) ==
    Emit(c, "register", form, Run("open", "none"),
         Render("register.html", FlashDuplicate, "danger", NoRow), "closed", "closed")

\* cursor.execute(INSERT ...) of client c's register with no store fault:
\* IntegrityError on a collision with a committed row; the statement waits
\* while it collides with a row of another client's open transaction; else
\* the row is inserted in c's transaction
execute_insert(c, form, row) ==
    \/ /\ UniqueViolation(row)
       /\ out' = register_duplicate(c, form)
       /\ pc' = [pc EXCEPT ![c] = "idle"]
       /\ reg' = [reg EXCEPT ![c] = NoReg]
       /\ UNCHANGED <<pending, nextId>>
    \/ /\ ~UniqueViolation(row)
       /\ LockedByOther(c, row)
       /\ pc[c] = "idle"
       /\ pc' = [pc EXCEPT ![c] = "wait"]
       /\ reg' = [reg EXCEPT ![c] = [form |-> form, pwhash |-> row.password]]
       /\ out' = NoOut
       /\ UNCHANGED <<pending, nextId>>
    \/ /\ ~UniqueViolation(row)
       /\ ~LockedByOther(c, row)
       /\ nextId <= MaxId
       /\ pending' = [pending EXCEPT ![c] = row]
       /\ nextId' = nextId + 1
       /\ pc' = [pc EXCEPT ![c] = "commit"]
       /\ reg' = [reg EXCEPT ![c] = [form |-> form, pwhash |-> row.password]]
       /\ out' = NoOut

\* POST /register up to cursor.execute(INSERT ...): hash the password, get a
\* connection (a), open a cursor and execute the INSERT (f: where that fails)
register_post(c, u, e, p, salt, a, f) ==
    LET form == RegForm(u, e, p)
    IN  /\ pc[c] = "idle"
        /\ \/ /\ a # "open" \/ f # "none"
              /\ out' = register_fault(c, form, a, f)
              /\ UNCHANGED <<pc, reg, pending, nextId>>
           \/ /\ a = "open" /\ f = "none"
              /\ execute_insert(c, form, NewRow(u, e, generate_password_hash(p, salt)))
        /\ UNCHANGED <<variant, users, session, registered, acq>>

\* the INSERT of client c's register was waiting for another transaction:
\* it fails (f: lock wait timeout, connection lost) or goes on
register_wait(c, f) ==
    LET form == reg[c].form
    IN  /\ pc[c] = "wait"
        /\ \/ /\ f # "none"
              /\ out' = register_fault(c, form, "open", f)
              /\ pc' = [pc EXCEPT ![c] = "idle"]
              /\ reg' = [reg EXCEPT ![c] = NoReg]
              /\ UNCHANGED <<pending, nextId>>
           \/ /\ f = "none"
              /\ ~LockedByOther(c, NewRow(form.username, form.email, reg[c].pwhash))
              /\ execute_insert(c, form,
                                NewRow(form.username, form.email, reg[c].pwhash))
        /\ UNCHANGED <<variant, users, session, registered, acq>>

\* a register that logs the new user in when its commit succeeds
register_commit_logging_in(c, f) ==
    LET form == reg[c].form
    IN  /\ pc[c] = "commit"
        /\ \/ /\ f = "none"
              /\ users' = commit_insert(users, pending[c])
              /\ registered' = Append(registered, form)
              /\ session' = [session EXCEPT ![c] =
                                [@ EXCEPT !.user_id = pending[c].id,
                                          !.username = pending[c].username]]
              /\ out' = Emit(c, "register", form, Run("open", "none"),
                             Redirect("login", FlashRegistered, "success"),
                             "closed", "closed")
           \/ /\ f # "none"
              /\ UNCHANGED <<users, registered, session>>
              /\ out' = register_fault(c, form, "open", f)
        /\ pending' = [pending EXCEPT ![c] = NoRow]
        /\ pc' = [pc EXCEPT ![c] = "idle"]
        /\ reg' = [reg EXCEPT ![c] = NoReg]
        /\ UNCHANGED <<variant, nextId, acq>>

\* connection.commit(), flash, redirect; finally closes
register_commit(c, f) ==
    LET form == reg[c].form
    IN  /\ pc[c] = "commit"
        /\ \/ /\ f = "none"
              /\ users' = commit_insert(users, pending[c])
              /\ registered' = Append(registered, form)
              /\ out' = Emit(c, "register", form, Run("open", "none"),
                             Redirect("login", FlashRegistered, "success"),
                             "closed", "closed")
           \/ /\ f # "none"
              \* the transaction is rolled back
              /\ UNCHANGED <<users, registered>>
              /\ out' = register_fault(c, form, "open", f)
        /\ pending' = [pending EXCEPT ![c] = NoRow]
        /\ pc' = [pc EXCEPT ![c] = "idle"]
        /\ reg' = [reg EXCEPT ![c] = NoReg]
        /\ UNCHANGED <<variant, nextId, session, acq>>

----------------------------------------------------------------------------
(* login                                                                   *)

\* a login that caches the email as the display name
login_session_email_as_name(s, user) ==
    [s EXCEPT !.user_id = user.id, !.username = user.email, !.email = user.email]

\* session[...] = user[...] of a successful login: app.py sets three keys
app_login_session(s, user) ==
    [s EXCEPT !.user_id = user.id, !.username = user.username, !.email = user.email]
\* app1.py sets user_id and username
app1_login_session(s, user) ==
    [s EXCEPT !.user_id = user.id, !.username = user.username]

\* a rejection that tells an unknown email from a wrong password
login_rejected_naming(user) ==
    Render("login.html",
           IF user = NoRow THEN "No account with this email!" ELSE FlashInvalidEmail,
           "danger", NoRow)

\* the else branch of 'if user and check_password_hash(...)': one flash,
\* whether user is None or a row whose hash rejects the password
app_login_rejected(user) == Render("login.html", FlashInvalidEmail, "danger", NoRow)
app1_login_rejected(user) == Render("login.html", FlashInvalidUsername, "danger", NoRow)

\* app.py login, POST: the response and the session it leaves
app_login(c, ident, pw, a, f) ==
    LET form == [username |-> NoStr, email |-> ident, password |-> pw]
        user == select_by_email(ident)
        E(run, resp, conn, cursor) ==
            [out |-> Emit(c, "login", form, run, resp, conn, cursor),
             session |-> session[c]]
    IN  CASE ident = "" \/ pw = "" ->
               E(NoRun, Render("login.html", FlashRequired, "danger", NoRow),
                 "none", "none")
          [] a = "none" ->
               E(Run(a, f), Render("login.html", FlashDbFailed, "danger", NoRow),
                 "none", "none")
          [] f = "cursor_error" ->
               E(Run(a, f), Crash("UnboundLocalError", FlashError, "danger"),
                 "open", "unbound")
          [] f = "cursor_lost" ->
               E(Run(a, f), Render("login.html", FlashError, "danger", NoRow),
                 "lost", "unbound")
          [] f = "exec_error" ->
               E(Run(a, f), Render("login.html", FlashError, "danger", NoRow),
                 "closed", "closed")
          [] f = "exec_lost" ->
               E(Run(a, f), Render("login.html", FlashError, "danger", NoRow),
                 "lost", "open")
          [] OTHER ->
               IF user # NoRow /\ check_password_hash(user.password, pw)
               THEN [out |-> Emit(c, "login", form, Run(a, f),
                                  Redirect("index", FlashLoggedIn, "success"),
                                  "closed", "closed"),
                     session |-> app_login_session(session[c], user)]
               ELSE E(Run(a, f), app_login_rejected(user), "closed", "closed")

\* app1.py login, POST: no try around the store calls
app1_login(c, ident, pw, a, f) ==
    LET form == [username |-> ident, email |-> NoStr, password |-> pw]
        user == select_by_username(ident)
        E(resp, conn, cursor) ==
            [out |-> Emit(c, "login", form, Run(a, f), resp, conn, cursor),
             session |-> session[c]]
    IN  CASE a = "raised" -> E(Crash("Error", NoStr, NoStr), "none", "none")
          [] a = "notconn" -> E(Crash("Error", NoStr, NoStr), "lost", "unbound")
          [] f = "cursor_error" -> E(Crash("Error", NoStr, NoStr), "open", "unbound")
          [] f = "cursor_lost" -> E(Crash("Error", NoStr, NoStr), "lost", "unbound")
          [] f = "exec_error" -> E(Crash("Error", NoStr, NoStr), "open", "open")
          [] f = "exec_lost" -> E(Crash("Error", NoStr, NoStr), "lost", "open")
          [] OTHER ->
               IF user # NoRow /\ check_password_hash(user.password, pw)
               THEN [out |-> Emit(c, "login", form, Run(a, f),
                                  Redirect("index", FlashLoggedIn, "success"),
                                  "closed", "closed"),
                     session |-> app1_login_session(session[c], user)]
               ELSE E(app1_login_rejected(user), "closed", "closed")

\* the login of the file that runs
login_result(c, ident, pw, a, f) ==
    IF variant = "app" THEN app_login(c, ident, pw, a, f)
    ELSE app1_login(c, ident, pw, a, f)

\* a login that clears the session when it fails
login_clearing_on_failure(c, ident, pw, a, f) ==
    LET r == login_result(c, ident, pw, a, f)
    IN  /\ pc[c] = "idle"
        /\ out' = r.out
        /\ session' = [session EXCEPT ![c] =
                          IF r.out.resp.flash = FlashLoggedIn THEN r.session
                          ELSE NoSession]
        /\ UNCHANGED <<variant, users, nextId, pending, pc, reg, registered, acq>>

\* POST /login
login(c, ident, pw, a, f) ==
    LET r == login_result(c, ident, pw, a, f)
    IN  /\ pc[c] = "idle"
        /\ out' = r.out
        /\ session' = [session EXCEPT ![c] = r.session]
        /\ UNCHANGED <<variant, users, nextId, pending, pc, reg, registered, acq>>

----------------------------------------------------------------------------
(* dashboard                                                               *)

\* app.py dashboard with a session: the response
app_dashboard(c, a, f) ==
    LET E(resp, conn, cursor) ==
            Emit(c, "dashboard", NoForm, Run(a, f), resp, conn, cursor)
    IN  CASE a = "none" -> E(Redirect("index", FlashDbFailedShort, "danger"), "none", "none")
          [] f = "cursor_error" ->
               E(Crash("UnboundLocalError", FlashError, "danger"), "open", "unbound")
          [] f = "cursor_lost" -> E(Redirect("index", FlashError, "danger"), "lost", "unbound")
          [] f = "exec_error" -> E(Redirect("index", FlashError, "danger"), "closed", "closed")
          [] f = "exec_lost" -> E(Redirect("index", FlashError, "danger"), "lost", "open")
          [] OTHER ->
               E(Render("dashboard.html", NoStr, NoStr, select_profile(session[c].user_id)),
                 "closed", "closed")

\* app1.py dashboard with a session: no try around the store calls
app1_dashboard(c, a, f) ==
    LET E(resp, conn, cursor) ==
            Emit(c, "dashboard", NoForm, Run(a, f), resp, conn, cursor)
    IN  CASE a = "raised" -> E(Crash("Error", NoStr, NoStr), "none", "none")
          [] a = "notconn" -> E(Crash("Error", NoStr, NoStr), "lost", "unbound")
          [] f = "cursor_error" -> E(Crash("Error", NoStr, NoStr), "open", "unbound")
          [] f = "cursor_lost" -> E(Crash("Error", NoStr, NoStr), "lost", "unbound")
          [] f = "exec_error" -> E(Crash("Error", NoStr, NoStr), "open", "open")
          [] f = "exec_lost" -> E(Crash("Error", NoStr, NoStr), "lost", "open")
          [] OTHER ->
               E(Render("dashboard.html", NoStr, NoStr, select_profile(session[c].user_id)),
                 "closed", "closed")

\* a dashboard without the check of the session
dashboard_unguarded(c) ==
    IF variant = "app" THEN app_dashboard(c, "open", "none")
    ELSE app1_dashboard(c, "open", "none")

\* the check 'user_id' not in session of dashboard: flash, redirect to login
dashboard_anonymous(c) ==
    Emit(c, "dashboard", NoForm, NoRun, Redirect("login", FlashPleaseLogin, "warning"),
         "none", "none")

\* GET /dashboard
dashboard(c, a, f) ==
    /\ pc[c] = "idle"
    /\ out' = IF session[c].user_id = 0 THEN dashboard_anonymous(c)
              ELSE IF variant = "app" THEN app_dashboard(c, a, f)
                   ELSE app1_dashboard(c, a, f)
    /\ UNCHANGED <<variant, users, nextId, pending, pc, reg, session, registered, acq>>

----------------------------------------------------------------------------
(* The system                                                              *)

Init ==
    /\ variant \in Variants
    /\ users = {}
    /\ nextId = 1
    /\ pending = [c \in Clients |-> NoRow]
    /\ pc = [c \in Clients |-> "idle"]
    /\ reg = [c \in Clients |-> NoReg]
    /\ session = [c \in Clients |-> NoSession]
    /\ out = NoOut
    /\ registered = <<>>
    /\ acq = AcqIdle

\* the store calls of a handler up to execute(): what get_db_connection
\* gives, then where a call fails, F being the failures taken
StoreRuns(F) == {<<a, f>> \in AcquireResults \X F : a = "open" \/ f = "none"}
CleanRun == <<"open", "none">>
\* the salt matters to a run that reaches the INSERT
SaltsDrawn(r) == IF r = CleanRun THEN Salts ELSE {1}
\* whether a store call fails does not depend on what the form carries: the
\* runs with a failure are taken with one form
RegisterRuns(u, e, p, F) ==
    IF <<u, e, p>> = <<"alice", "alice@x.com", "pw1">> THEN StoreRuns(F) ELSE {CleanRun}
\* app.py login answers a form with an empty field before any store call
LoginRuns(ident, pw, F) ==
    IF variant = "app" /\ (ident = "" \/ pw = "") THEN {CleanRun}
    ELSE IF ident \in {"alice", "alice@x.com"} /\ pw = "pw1" THEN StoreRuns(F)
         ELSE {CleanRun}
\* dashboard redirects a request without a session before any store call
DashboardRuns(c, F) == IF session[c].user_id = 0 THEN {CleanRun} ELSE StoreRuns(F)

\* what a specification lets its clients submit (usernames, emails, passwords
\* of register, identifiers and passwords of login) and the store failures it
\* takes (up to execute(), at commit())
Inputs(U, E, RP, LI, LP, F, CF) ==
    [U |-> U, E |-> E, RP |-> RP, LI |-> LI, LP |-> LP, F |-> F, CF |-> CF]

\* one request, or one step of a register request, of client c
Step(c, I) ==
    \/ index(c)
    \/ logout(c)
    \/ health(c)
    \/ \E op \in {"register_get", "login_get"} : get_form(c, op)
    \/ \E u \in I.U, e \in I.E, p \in I.RP :
          \E r \in RegisterRuns(u, e, p, I.F) :
              \E salt \in SaltsDrawn(r) : register_post(c, u, e, p, salt, r[1], r[2])
    \/ \E f \in I.CF : register_commit(c, f)
    \/ \E ident \in I.LI, pw \in I.LP :
          \E r \in LoginRuns(ident, pw, I.F) : login(c, ident, pw, r[1], r[2])
    \/ \E r \in DashboardRuns(c, I.F) : dashboard(c, r[1], r[2])

\* one client context, every form, every store failure
Next ==
    Step("c1", Inputs(Usernames, Emails, RegPasswords, LoginIdents, LoginPasswords,
                      SelectFaults, CommitFaults))

Spec == Init /\ [][Next]_vars

\* two client contexts whose requests interleave
NextConc ==
    \E c \in Clients :
        \/ Step(c, Inputs(Usernames, Emails, {"pw1"}, {"alice", "alice@x.com"}, {"pw1"},
                          {"none", "exec_error"}, {"none", "commit_error"}))
        \/ \E f \in {"none", "exec_error"} : register_wait(c, f)

SpecConc == Init /\ [][NextConc]_vars

----------------------------------------------------------------------------
(* get_db_connection on its own: every outcome pattern, every max_retries   *)

InitConn ==
    /\ variant \in Variants
    /\ users = {}
    /\ nextId = 1
    /\ pending = [c \in Clients |-> NoRow]
    /\ pc = [c \in Clients |-> "idle"]
    /\ reg = [c \in Clients |-> NoReg]
    /\ session = [c \in Clients |-> NoSession]
    /\ out = NoOut
    /\ registered = <<>>
    /\ acq \in [phase : {"call"}, pat : AttemptPatterns, max_retries : 0..MaxRetryArg,
                result : {NoResult}]

call_get_db_connection ==
    /\ acq.phase = "call"
    /\ acq' = [acq EXCEPT !.phase = "done",
                          !.result = get_db_connection(variant, acq.pat, acq.max_retries)]
    /\ UNCHANGED <<variant, users, nextId, pending, pc, reg, session, out, registered>>

NextConn == call_get_db_connection

SpecConn == InitConn /\ [][NextConn]_vars

----------------------------------------------------------------------------
(* Properties                                                              *)

\* a client context is Authenticated when its session carries a user_id
Authenticated(s) == s.user_id # 0

\* the connection was acquired and every store call of the request completed
StoreComplete(o) == o.run = Run("open", "none")

\* the field a variant looks a user up by: email in app.py, username in app1.py
LookupKey(form) == IF variant = "app" THEN form.email ELSE form.username
\* what a login form carries in its one identifier field
SubmittedIdent(form) == IF form.email # NoStr THEN form.email ELSE form.username

\* a registration that succeeded carries the identifier and the password of
\* the form: a record with that identifier exists and the password verifies
CredentialsMatch(form) ==
    \E i \in 1..Len(registered) :
        /\ LookupKey(registered[i]) = LookupKey(form)
        /\ registered[i].password = form.password

InvalidCredentials(resp) ==
    /\ resp.kind = "render" /\ resp.target = "login.html"
    /\ resp.flash \in {FlashInvalidEmail, FlashInvalidUsername}
    /\ resp.category = "danger"
LoginSucceeded(resp) == resp = Redirect("index", FlashLoggedIn, "success")
RegisterSucceeded(resp) == resp = Redirect("login", FlashRegistered, "success")
DuplicateOutcome(resp) == resp = Render("register.html", FlashDuplicate, "danger", NoRow)

\* a row of rows carries the username or the email of the form
KeyExists(rows, form) ==
    \E r \in rows : r.username = form.username \/ r.email = form.email

\* no store call of the request failed (it made them all, or made none)
NoStoreFailure(o) == o.run \in {Run("open", "none"), NoRun}

\* C1 as the spec states it, of the logins that meet no store failure: a
\* login from an Anonymous context makes the context Authenticated exactly
\* when a record with the submitted identifier exists and the password
\* verifies; in every other case the context stays Anonymous and the outcome
\* is the invalid-credentials warning
C1_Original ==
    out.op = "login" /\ ~Authenticated(out.cookie) /\ NoStoreFailure(out) =>
        IF CredentialsMatch(out.form)
        THEN Authenticated(session[out.client])
        ELSE ~Authenticated(session[out.client]) /\ InvalidCredentials(out.resp)

\* C1, amended: the statement of C1 holds of a login whose store calls
\* complete (which in app.py needs both fields non-empty); a login of an
\* Anonymous context authenticates only if the credentials match and the store
\* calls complete; and a login whose store calls do not complete stays
\* Anonymous with an outcome that is not the invalid-credentials warning
C1_LoginDecision ==
    out.op = "login" /\ ~Authenticated(out.cookie) =>
        /\ Authenticated(session[out.client]) =>
              CredentialsMatch(out.form) /\ StoreComplete(out)
        /\ StoreComplete(out) =>
              IF CredentialsMatch(out.form)
              THEN Authenticated(session[out.client])
              ELSE ~Authenticated(session[out.client]) /\ InvalidCredentials(out.resp)
        /\ ~StoreComplete(out) =>
              ~Authenticated(session[out.client]) /\ ~InvalidCredentials(out.resp)

\* a login from an Anonymous context has authenticated it
C1_Witness ==
    /\ out.op = "login" /\ ~Authenticated(out.cookie)
    /\ StoreComplete(out) /\ CredentialsMatch(out.form)
    /\ Authenticated(session[out.client])

\* C2 as the spec states it, of the logins whose store lookup completes: after
\* a registration with username u and password p succeeded, a login with
\* identifier u and password p yields Authenticated, and a login with
\* identifier u and another password fails with the invalid-credentials
\* outcome, in both variants
C2_Original ==
    out.op = "login" /\ StoreComplete(out) =>
        \A i \in 1..Len(registered) :
            registered[i].username = SubmittedIdent(out.form) =>
                IF registered[i].password = out.form.password
                THEN /\ LoginSucceeded(out.resp)
                     /\ Authenticated(session[out.client])
                     /\ session[out.client].username = registered[i].username
                ELSE /\ InvalidCredentials(out.resp)
                     /\ session[out.client] = out.cookie

\* C2, amended: after a registration with username u, email e and password p
\* succeeded, a login whose store calls complete and that carries the
\* identifier the variant looks up (u in app1.py, e in app.py) succeeds with
\* password p and is bound to u, and with another password fails with the
\* invalid-credentials outcome and leaves the session as it was
C2_RegisterThenLogin ==
    out.op = "login" /\ StoreComplete(out) =>
        \A i \in 1..Len(registered) :
            LookupKey(registered[i]) = SubmittedIdent(out.form) =>
                IF registered[i].password = out.form.password
                THEN /\ LoginSucceeded(out.resp)
                     /\ Authenticated(session[out.client])
                     /\ session[out.client].username = registered[i].username
                ELSE /\ InvalidCredentials(out.resp)
                     /\ session[out.client] = out.cookie

\* a login with the identifier of a registered user and another password than
\* the registered one has failed
C2_Witness ==
    /\ out.op = "login" /\ StoreComplete(out)
    /\ \E i \in 1..Len(registered) :
          /\ LookupKey(registered[i]) = SubmittedIdent(out.form)
          /\ registered[i].password # out.form.password
    /\ InvalidCredentials(out.resp)

IsProfileOf(data, r) ==
    /\ data.id = r.id /\ data.username = r.username
    /\ data.email = r.email /\ data.created_at = r.created_at

\* the dashboard view was rendered with the record of the user the session
\* cookie is bound to, or with no record if that user does not exist
RendersBoundUser(o) ==
    /\ o.resp.kind = "render" /\ o.resp.target = "dashboard.html"
    /\ IF \E r \in o.before : r.id = o.cookie.user_id
       THEN \E r \in o.before : r.id = o.cookie.user_id /\ IsProfileOf(o.resp.data, r)
       ELSE o.resp.data = NoRow

\* redirect to login, no connection acquired, no store call, no user data
RedirectedNoQuery(o) ==
    /\ o.resp = Redirect("login", FlashPleaseLogin, "warning")
    /\ o.run = NoRun /\ o.conn = "none" /\ o.cursor = "none"
    /\ o.resp.data = NoRow

\* C5 as the spec states it, of app.py, whose dashboard answers a failed
\* store call itself: a dashboard request from an Anonymous context yields a
\* redirect to login and performs no user-store query; one from an
\* Authenticated context yields the data of the user the session is bound to
C5_Original ==
    variant = "app" /\ out.op = "dashboard" =>
        IF ~Authenticated(out.cookie) THEN RedirectedNoQuery(out)
        ELSE RendersBoundUser(out)

\* C5, amended: the Anonymous half as stated; a request from an Authenticated
\* context yields the data of the user the session is bound to when its store
\* calls complete, and no user data and no dashboard view when they do not
C5_Dashboard ==
    out.op = "dashboard" =>
        IF ~Authenticated(out.cookie) THEN RedirectedNoQuery(out)
        ELSE /\ StoreComplete(out) => RendersBoundUser(out)
             /\ ~StoreComplete(out) =>
                   /\ out.resp.data = NoRow
                   /\ out.resp.target # "dashboard.html"
                   /\ out.resp.kind \in {"redirect", "error"}

\* an Anonymous context has requested the dashboard while the store holds a user
C5_Witness ==
    /\ out.op = "dashboard" /\ ~Authenticated(out.cookie)
    /\ users # {}
    /\ RedirectedNoQuery(out)

C7_Logout ==
    /\ out.op = "logout" =>
          /\ out.resp = Redirect("login", FlashLoggedOut, "info")
          /\ ~Authenticated(session[out.client])
          /\ session[out.client].username = NoStr
          /\ out.run = NoRun /\ out.conn = "none"
          /\ users = out.before
          /\ logout_session(session[out.client]) = session[out.client]
          /\ ~Authenticated(out.cookie) => session[out.client] = out.cookie
    /\ out.op \notin {"none", "logout"} /\ ~Authenticated(out.cookie) =>
          /\ Authenticated(session[out.client]) =>
                out.op = "login" /\ LoginSucceeded(out.resp)
          /\ out.op = "dashboard" => RedirectedNoQuery(out)
          /\ out.op = "index" => out.resp = Redirect("login", NoStr, NoStr)

\* an Authenticated context has logged out
C7_Witness ==
    /\ out.op = "logout" /\ Authenticated(out.cookie)
    /\ ~Authenticated(session[out.client])

\* the session s is bound to a user of rows: its id and its username
BoundTo(s, rows) == \E r \in rows : r.id = s.user_id /\ r.username = s.username

FirstSuccessAt(pat, n) == pat[n] = "ok" /\ \A k \in 1..(n - 1) : pat[k] # "ok"

\* C9 as the spec states it, of get_db_connection of app.py: when the first
\* N-1 attempts fail in whatever way and attempt N <= max_retries connects,
\* the call returns a handle after exactly N attempts and exactly N-1 delays
C9_Original ==
    variant = "app" /\ acq.phase = "done" =>
        \A n \in 1..acq.max_retries :
            FirstSuccessAt(acq.pat, n) =>
                /\ acq.result.conn = "open" /\ ~acq.result.raised
                /\ acq.result.attempts = n
                /\ acq.result.sleeps = n - 1

\* C10 as the spec states it: when no connection can be acquired, no
\* exception reaches the handler, and the register, login or dashboard request
\* completes with a try-again-later response instead of crashing
C10_Original ==
    out.op \in {"register", "login", "dashboard"} /\ out.run.acq \notin {"open", "unused"} =>
        /\ out.run.acq = "none"
        /\ out.resp.status # 500
        /\ out.resp.flash \in {FlashDbFailed, FlashDbFailedShort}

\* the request uses the store, its connection was acquired and one of its
\* store calls (cursor(), execute(), commit()) failed
StoreFault(o) ==
    /\ o.op \in {"register", "login", "dashboard"}
    /\ o.run.acq = "open" /\ o.run.fault # "none"

\* C11 as the spec states it, of app1.py (the claim names both variants):
\* when a store call of register, login or dashboard fails for another reason
\* than the uniqueness constraint, the request ends with the generic
\* retry-later warning and without an unhandled exception, the session is
\* unchanged and no user record is added
C11_Original ==
    variant = "app1" /\ StoreFault(out) =>
        /\ out.resp.status # 500
        /\ out.resp.flash = FlashError /\ out.resp.category = "danger"
        /\ session[out.client] = out.cookie
        /\ users = out.before

\* nothing the request acquired is still open: its connection is closed, or
\* was lost, or was never acquired, and its cursor is not open on a live
\* connection
Released(o) ==
    /\ o.conn \in {"closed", "lost", "none"}
    /\ o.cursor = "open" => o.conn = "lost"

\* C12 as the spec states it, of app1.py: on every exit path of a store-using
\* request the connection and the cursor the request acquired have been
\* released when the request completes
C12_Original ==
    variant = "app1" /\ out.op \in {"register", "login", "dashboard"} => Released(out)

\* no user record carries the identifier in the field the variant looks up
NoRecord(ident) == \A r \in users : LookupKey(r) # ident
\* a user registered with the identifier and with another password than pw
RecordRejects(ident, pw) ==
    \E i \in 1..Len(registered) :
        LookupKey(registered[i]) = ident /\ registered[i].password # pw

\* C13: in every state, the login of a client with an identifier that matches
\* no record and its login with an identifier whose record rejects the
\* password, the store calls completing in both, give the same response
\* (view, message, category, data) and leave the same session, which is the
\* session the client had
C13_FailedLoginAlike ==
    \A c \in Clients, i1 \in LoginIdents, i2 \in LoginIdents, pw \in LoginPasswords :
        NoRecord(i1) /\ RecordRejects(i2, pw) =>
            LET r1 == login_result(c, i1, pw, "open", "none")
                r2 == login_result(c, i2, pw, "open", "none")
            IN  /\ r1.out.resp = r2.out.resp
                /\ r1.session = r2.session
                /\ r1.session = session[c]
                /\ r1.out.conn = r2.out.conn /\ r1.out.cursor = r2.out.cursor

\* a login with the identifier of a record that rejects its password has
\* failed while another identifier matches no record
C13_Witness ==
    /\ out.op = "login" /\ StoreComplete(out)
    /\ RecordRejects(LookupKey(out.form), out.form.password)
    /\ InvalidCredentials(out.resp)
    /\ \E i1 \in LoginIdents :
          /\ NoRecord(i1)
          /\ login_result(out.client, i1, out.form.password, "open", "none").out.resp
                = out.resp

\* C14: a step changes the session of a client only if it is that client's
\* own request, and then a login or a logout; the requests of the other
\* clients leave it as it is
C14_SessionsIsolated ==
    [][\A c \in Clients :
          session'[c] # session[c] =>
              out'.client = c /\ out'.op \in {"login", "logout"}]_vars

\* a client has logged out while another client is Authenticated
C14_Witness ==
    /\ out.op = "logout" /\ Authenticated(out.cookie)
    /\ \E d \in Clients \ {out.client} : Authenticated(session[d])

\* C15: no step removes or changes a user record; a step that changes the
\* set of users is the end of a register request and adds exactly one record;
\* login, logout, index, dashboard and health leave the set as it is
C15_StoreOnlyGrows ==
    [][/\ users \subseteq users'
       /\ users' # users =>
             /\ out'.op = "register" /\ RegisterSucceeded(out'.resp)
             /\ Cardinality(users' \ users) = 1
       /\ out'.op \in {"login", "logout", "index", "dashboard", "health"} =>
             users' = users]_vars

\* a registration has added a record to a store that held one already
C15_Witness ==
    /\ out.op = "register" /\ RegisterSucceeded(out.resp)
    /\ out.before # {}
    /\ out.before \subseteq users /\ Cardinality(users \ out.before) = 1

\* C16: no step of a register request (the form, the INSERT, the wait for a
\* lock, the commit, whatever its outcome) changes a session; a registration
\* that succeeds redirects to login and leaves its client as it was, so an
\* Anonymous client stays Anonymous
C16_RegisterKeepsSession ==
    [][out'.op \in {"register", "register_get", "none"} =>
          /\ session' = session
          /\ out'.op = "register" => out'.cookie = session'[out'.client]
          /\ RegisterSucceeded(out'.resp) =>
                out'.resp.kind = "redirect" /\ out'.resp.target = "login"]_vars

\* a registration of an Anonymous client has succeeded and the client is
\* Anonymous
C16_Witness ==
    /\ out.op = "register" /\ RegisterSucceeded(out.resp)
    /\ ~Authenticated(out.cookie)
    /\ ~Authenticated(session[out.client])

\* C17: in every state the health endpoint of app.py answers 200 with the
\* same payload, status healthy and service flask-app; it asks for no store
\* connection and makes no store call, and it leaves the session and the users
\* as they are, whatever the session of the caller and whatever the store holds
C17_HealthFixed ==
    variant = "app" /\ out.op = "health" =>
        /\ out.resp = Resp(200, "json", "status=healthy,service=flask-app",
                           NoStr, NoStr, NoRow)
        /\ out.run = NoRun /\ out.conn = "none" /\ out.cursor = "none"
        /\ session[out.client] = out.cookie
        /\ users = out.before

\* an Authenticated client has asked app.py for health while the store holds users
C17_Witness ==
    /\ variant = "app" /\ out.op = "health"
    /\ Authenticated(out.cookie) /\ users # {}
    /\ out.resp.status = 200

\* C18: in every state the session of each client holds none of the keys a
\* login of the variant writes (user_id, username and email in app.py, user_id
\* and username in app1.py), or all of them, and then they are the id, the
\* username and (in app.py) the email of one record of users
C18_SessionFromOneRecord ==
    \A c \in Clients :
        IF session[c].user_id = 0
        THEN session[c] = NoSession
        ELSE \E r \in users :
                /\ session[c].user_id = r.id
                /\ session[c].username = r.username
                /\ session[c].email = IF variant = "app" THEN r.email ELSE NoStr

\* a client Authenticated as one user has logged in as another user
C18_Witness ==
    /\ out.op = "login" /\ LoginSucceeded(out.resp)
    /\ Authenticated(out.cookie)
    /\ session[out.client].user_id # out.cookie.user_id
    /\ session[out.client].username # out.cookie.username

\* C19: a login of an Authenticated client that does not succeed (unknown
\* identifier, wrong password, empty field, no connection, a store call that
\* fails) leaves the session of the client exactly as it was
C19_FailedLoginKeepsSession ==
    out.op = "login" /\ Authenticated(out.cookie) /\ ~LoginSucceeded(out.resp) =>
        /\ session[out.client] = out.cookie
        /\ Authenticated(session[out.client])

\* a login of an Authenticated client has failed for want of a connection or
\* on a store call
C19_Witness ==
    /\ out.op = "login" /\ Authenticated(out.cookie)
    /\ out.run # NoRun /\ ~StoreComplete(out)
    /\ session[out.client] = out.cookie

\* none of the first m attempts of the pattern connects
AllFail(pat, m) == \A k \in 1..m : pat[k] # "ok"
\* the attempts among the first m that raise
Raising(pat, m) == {k \in 1..m : pat[k] = "error"}

\* C20 as the spec states it, of get_db_connection of app.py: for every
\* max_retries >= 0 and every pattern the call ends after at most max_retries
\* attempts and at most max_retries - 1 sleeps; when all attempts fail it has
\* made exactly max_retries attempts and has not slept after the last one
C20_Original ==
    variant = "app" /\ acq.phase = "done" =>
        /\ acq.result.attempts <= acq.max_retries
        /\ acq.result.sleeps <= acq.max_retries - 1
        /\ AllFail(acq.pat, acq.max_retries) =>
              /\ acq.result.attempts = acq.max_retries
              /\ acq.result.sleeps <= Cardinality(Raising(acq.pat, acq.max_retries - 1))

\* C20, amended: the call ends after at most max_retries attempts and at most
\* max_retries - 1 sleeps, none when max_retries is 0; when all attempts fail
\* it returns None after exactly max_retries attempts, having slept once after
\* each attempt but the last that raised, and not after the last
C20_RetryBounds ==
    variant = "app" /\ acq.phase = "done" =>
        /\ ~acq.result.raised
        /\ acq.result.attempts <= acq.max_retries
        /\ acq.result.sleeps <= (IF acq.max_retries = 0 THEN 0 ELSE acq.max_retries - 1)
        /\ acq.result.sleeps <= acq.result.attempts
        /\ AllFail(acq.pat, acq.max_retries) =>
              /\ acq.result.conn = "none"
              /\ acq.result.attempts = acq.max_retries
              /\ acq.result.sleeps = Cardinality(Raising(acq.pat, acq.max_retries - 1))

\* a call with max_retries of 2 or more whose attempts all raise has ended
\* after max_retries - 1 sleeps
C20_Witness ==
    /\ variant = "app" /\ acq.phase = "done"
    /\ acq.max_retries >= 2
    /\ \A k \in 1..acq.max_retries : acq.pat[k] = "error"
    /\ acq.result.attempts = acq.max_retries
    /\ acq.result.sleeps = acq.max_retries - 1

\* the redirects from resp on, followed with session s, end with a rendered
\* view after at most two hops
EndsInView(resp, s) ==
    follow_redirect(follow_redirect(resp, s), s).kind = "render"

\* C21: the redirect a request answers with, followed with the session the
\* request left, ends with a rendered view after at most two hops; so does a
\* GET of index or of login with the session of any client in any state; and
\* in app.py, whether the store is available or not (no connection), every
\* request of index, register, login, logout and dashboard that meets no
\* failing store call ends with a view or with such a redirect
C21_RedirectsEndInView ==
    /\ out.resp.kind = "redirect" =>
          /\ out.resp.target \in {"login", "index"}
          /\ EndsInView(out.resp, session[out.client])
    /\ \A c \in Clients, e \in {"index", "login"} :
          EndsInView(route_get(e, session[c]), session[c])
    /\ /\ variant = "app"
       /\ out.op \notin {"none", "health"}
       /\ out.run.fault = "none"
       => out.resp.kind \in {"render", "redirect"}

\* in app.py a dashboard request with a session and no connection has been
\* redirected to index, which renders home
C21_Witness ==
    /\ variant = "app" /\ out.op = "dashboard"
    /\ out.run.acq = "none"
    /\ out.resp = Redirect("index", FlashDbFailedShort, "danger")
    /\ follow_redirect(out.resp, session[out.client]).kind = "render"
    /\ follow_redirect(out.resp, session[out.client]).target = "home.html"

====
